---- MODULE Spec2Model ----
(***************************************************************************)
(* Model of youtube-to-jpg (src/src/main.rs): the pipeline driver `main`,  *)
(* the two tool checks, the temp-dir guard, the yt-dlp download and the    *)
(* ffmpeg frame extraction.  Text (PATH, paths, filter chain, arguments)   *)
(* is a sequence of tokens so that formatting and splitting are computed.  *)
(* The token "xFF" stands for a byte that is not valid UTF-8.              *)
(***************************************************************************)
EXTENDS Integers, Sequences, FiniteSets, TLC

(* ---------------------------- bounds ----------------------------------- *)
\* most entries of the initial PATH
MaxPathEntries == 2

\* entries an initial PATH is made of: a directory, the empty entry, and
\* one that is not valid UTF-8
PathEntries == {<<"a">>, <<>>, <<"xFF">>}

\* directories that may hold a tool binary before the run
BinDirs == {<<"a">>}

\* paths fetcher.fetch() may return, with the directory the binary is in
FetchPaths ==
    {[path |-> <<"c", "/", "yt-dlp">>, dir |-> <<"c">>],
     [path |-> <<"b", "/", "/", "yt-dlp">>, dir |-> <<"b">>],
     [path |-> <<"/", "yt-dlp">>, dir |-> <<"/">>],
     [path |-> <<"xFF", "/", "yt-dlp">>, dir |-> <<"xFF">>]}

\* values of --video-path tried with --keep-video: plain, not valid UTF-8,
\* and a file directly in --out-dir
VideoPaths == {<<"v.mp4">>, <<"v", "xFF", ".mp4">>, <<"frames", "/", "v.mp4">>}

\* values of --out-dir and --pattern tried: the defaults, an --out-dir that
\* is not valid UTF-8, an absolute --pattern
OutputCases ==
    {[out_dir |-> <<"frames">>, pattern |-> <<"frame_%06d.png">>],
     [out_dir |-> <<"fr", "xFF">>, pattern |-> <<"frame_%06d.png">>],
     [out_dir |-> <<"frames">>, pattern |-> <<"/", "abs", "/", "f_%d.png">>]}

\* directories tempdir() may create (under TMPDIR, which need not be UTF-8)
TempDirs == {<<"/", "tmp", "/", "x">>, <<"/", "t", "xFF", "/", "x">>}

\* values of --fps tried
FpsValues == {0, 10}

\* Option<T>: None is the empty set, Some(x) the singleton
None == {}
Some(x) == {x}
unwrap(o) == CHOOSE x \in o : TRUE

\* values of --scale, --start, --duration tried
ScaleValues == {None, Some("1280:-1")}
StartValues == {None, Some("00:00:05")}
DurationValues == {None, Some("10")}

(* ---------------------------- text helpers ----------------------------- *)
\* all sequences of 1..n PATH entries
RECURSIVE EntrySeqs(_)
EntrySeqs(n) ==
    IF n = 0 THEN {}
    ELSE LET shorter == EntrySeqs(n - 1)
         IN {<<e>> : e \in PathEntries}
            \cup shorter
            \cup {Append(es, e) : es \in shorter, e \in PathEntries}

\* std::env::split_paths on unix: split the text at every ":"
RECURSIVE split_paths(_)
split_paths(s) ==
    IF \A i \in 1..Len(s) : s[i] # ":" THEN <<s>>
    ELSE LET k == CHOOSE i \in 1..Len(s) : s[i] = ":" /\ \A j \in 1..(i - 1) : s[j] # ":"
         IN <<SubSeq(s, 1, k - 1)>> \o split_paths(SubSeq(s, k + 1, Len(s)))

\* u32 Display: decimal digits, most significant first
RECURSIVE Decimal(_)
Decimal(n) ==
    LET digit == <<"0", "1", "2", "3", "4", "5", "6", "7", "8", "9">>[(n % 10) + 1]
    IN IF n < 10 THEN <<digit>> ELSE Append(Decimal(n \div 10), digit)

\* [String]::join(sep)
RECURSIVE join(_, _)
join(parts, sep) ==
    IF Len(parts) = 0 THEN <<>>
    ELSE IF Len(parts) = 1 THEN parts[1]
    ELSE parts[1] \o sep \o join(Tail(parts), sep)

\* the PATH texts of up to n entries
PathTexts(n) == {join(es, <<":">>) : es \in EntrySeqs(n)}

\* a path without its trailing separators
RECURSIVE trim_separators(_)
trim_separators(p) ==
    IF p # <<>> /\ p[Len(p)] = "/" THEN trim_separators(SubSeq(p, 1, Len(p) - 1)) ELSE p

\* Path::parent: the path without its last component.  None for the empty
\* path and for the root; repeated and trailing separators do not count.
\* (paths with "." or ".." components are not among the modelled ones)
parent(p) ==
    LET q == trim_separators(p)
    IN IF q = <<>> THEN None
       ELSE IF \A i \in 1..Len(q) : q[i] # "/" THEN Some(<<>>)
       ELSE LET k == CHOOSE i \in 1..Len(q) :
                        q[i] = "/" /\ \A j \in (i + 1)..Len(q) : q[j] # "/"
                pre == trim_separators(SubSeq(q, 1, k))
            IN IF pre = <<>> THEN Some(<<"/">>) ELSE Some(pre)

\* path.parent().unwrap_or(Path::new("."))
parent_or_dot(p) == IF parent(p) = None THEN <<".">> ELSE unwrap(parent(p))

\* Path::join: an absolute path replaces the base
Path_join(base, p) ==
    IF p # <<>> /\ p[1] = "/" THEN p
    ELSE IF base = <<>> THEN p
    ELSE IF base[Len(base)] = "/" THEN base \o p
    ELSE base \o <<"/">> \o p

\* whether a text is valid UTF-8
is_utf8(t) == \A i \in 1..Len(t) : t[i] # "xFF"

\* Path::display(): lossy, invalid bytes become U+FFFD
display(t) == [i \in 1..Len(t) |-> IF t[i] = "xFF" THEN "uFFFD" ELSE t[i]]

\* Path::to_string_lossy(): invalid bytes become U+FFFD
to_string_lossy(t) == [i \in 1..Len(t) |-> IF t[i] = "xFF" THEN "uFFFD" ELSE t[i]]

\* std::env::var("PATH").unwrap_or_default(): "" when unset or not unicode
var_PATH_or_default(isSet, text) == IF isSet /\ is_utf8(text) THEN text ELSE <<>>

(* ---------------------------- state ------------------------------------ *)
VARIABLES
    cli,        \* the parsed Cli struct
    pathSet,    \* whether the PATH environment variable is set
    PATH,       \* its text
    binDirs,    \* tool name -> directories holding that binary
    outDir,     \* --out-dir on disk: "missing", "dir" or "file"
    files,      \* video files on disk: kept (--video-path) and tmp (in the temp dir)
    tmpDir,     \* the temp dir: "none", "exists" (guard alive), "deleted" (guard
                \* dropped, removed), "left" (guard dropped, removal failed)
    video_path, \* main's video_path: where it is ("none", "kept" or "tmp") and its text
    pc,         \* position of main
    result,     \* what main returned
    running,    \* subprocesses outstanding
    calls,      \* how many times each external operation was started
    hist,       \* what the lookups, the fetch and the download reported
    ffArgs      \* the ffmpeg invocation built, in builder order

vars == <<cli, pathSet, PATH, binDirs, outDir, files, tmpDir, video_path, pc,
          result, running, calls, hist, ffArgs>>

Ok == "Ok"

\* which(name): some entry of PATH (read with var_os) holds the binary
which(name) ==
    /\ pathSet
    /\ \E i \in 1..Len(split_paths(PATH)) : split_paths(PATH)[i] \in binDirs[name]

FileAt(p) == IF p = "none" THEN "absent" ELSE files[p]

\* whether --video-path lies directly in --out-dir
VideoInOutDir == parent(cli.video_path) = Some(cli.out_dir)

\* --video-path needs --keep-video; without it the default stays
Init ==
    /\ cli \in [fps : FpsValues, scale : ScaleValues, start : StartValues,
                duration : DurationValues, keep_video : BOOLEAN,
                video_path : VideoPaths \cup {<<"video.mp4">>},
                out_dir : {c.out_dir : c \in OutputCases},
                pattern : {c.pattern : c \in OutputCases}, fetch_yt_dlp : BOOLEAN]
    /\ [out_dir |-> cli.out_dir, pattern |-> cli.pattern] \in OutputCases
    /\ IF cli.keep_video THEN cli.video_path \in VideoPaths
       ELSE cli.video_path = <<"video.mp4">>
    /\ pathSet \in BOOLEAN
    /\ PATH \in (IF pathSet THEN PathTexts(MaxPathEntries) ELSE {<<>>})
    /\ binDirs \in [{"ffmpeg", "yt-dlp"} -> SUBSET BinDirs]
    /\ outDir \in {"missing", "dir", "file"}
    /\ files \in [kept : {"absent", "empty", "data"}, tmp : {"absent"}]
    /\ (VideoInOutDir /\ outDir # "dir") => files.kept = "absent"
    /\ ~cli.keep_video => files.kept = "absent"
    /\ tmpDir = "none"
    /\ video_path = [loc |-> "none", text |-> <<>>]
    /\ pc = "ensure_ffmpeg"
    /\ result = "running"
    /\ running = {}
    /\ calls = [which_ffmpeg |-> 0, which_yt_dlp |-> 0, fetch |-> 0, set_path |-> 0,
                tempdir |-> 0, yt_dlp |-> 0, ffmpeg |-> 0]
    /\ hist = [ffmpeg_found |-> "unknown", yt_dlp_found |-> "unknown", fetch |-> "none", fetched_dir |-> {},
               download |-> "none", file_after |-> "unknown", exists_check |-> "none",
               out_dir_before |-> "unknown"]
    /\ ffArgs = <<>>

(* ---------------------------- main's return ---------------------------- *)
\* Drop of _tmp_guard: TempDir calls remove_dir_all and ignores its result
drop_tmp_guard(dir, removed) ==
    IF dir = "exists" THEN (IF removed THEN "deleted" ELSE "left") ELSE dir

\* main returns r (or unwinds) with fs on disk; locals are dropped on the way out, and
\* the removal of the temp dir succeeds or fails; a removal that fails has
\* removed what it could, the video file or not
Return(r, fs) ==
    /\ pc' = "exited"
    /\ result' = r
    /\ \E removed \in BOOLEAN :
         /\ tmpDir' = drop_tmp_guard(tmpDir, removed)
         /\ \/ files' = IF tmpDir' \in {"deleted", "left"}
                        THEN [fs EXCEPT !.tmp = "absent"] ELSE fs
            \/ tmpDir' # "deleted" /\ files' = fs

(* ---------------------------- tool checks ------------------------------ *)
ensure_ffmpeg_available_lenient ==
    /\ pc = "ensure_ffmpeg"
    /\ calls' = [calls EXCEPT !.which_ffmpeg = @ + 1]
    /\ hist' = [hist EXCEPT !.ffmpeg_found = IF which("ffmpeg") THEN "found" ELSE "absent"]
    /\ pc' = "ensure_yt_dlp"
    /\ UNCHANGED <<cli, pathSet, PATH, binDirs, outDir, files, tmpDir, video_path,
                   result, running, ffArgs>>

ensure_ffmpeg_available ==
    /\ pc = "ensure_ffmpeg"
    /\ calls' = [calls EXCEPT !.which_ffmpeg = @ + 1]
    /\ hist' = [hist EXCEPT !.ffmpeg_found = IF which("ffmpeg") THEN "found" ELSE "absent"]
    /\ IF which("ffmpeg")
       THEN /\ pc' = "ensure_yt_dlp"
            /\ UNCHANGED <<result, tmpDir, files>>
       ELSE Return("ffmpeg_not_found", files)
    /\ UNCHANGED <<cli, pathSet, PATH, binDirs, outDir, video_path, running, ffArgs>>

\* ensure_yt_dlp_available up to its await on fetcher.fetch()
ensure_yt_dlp_available_always_fetch ==
    /\ pc = "ensure_yt_dlp"
    /\ IF which("yt-dlp")
       THEN /\ calls' = [calls EXCEPT !.which_yt_dlp = @ + 1]
            /\ hist' = [hist EXCEPT !.yt_dlp_found = "found"]
            /\ pc' = "scope"
            /\ UNCHANGED <<result, tmpDir, files>>
       ELSE /\ calls' = [calls EXCEPT !.which_yt_dlp = @ + 1, !.fetch = @ + 1]
            /\ hist' = [hist EXCEPT !.yt_dlp_found = "absent"]
            /\ pc' = "fetching"
            /\ UNCHANGED <<result, tmpDir, files>>
    /\ UNCHANGED <<cli, pathSet, PATH, binDirs, outDir, video_path, running, ffArgs>>

ensure_yt_dlp_available ==
    /\ pc = "ensure_yt_dlp"
    /\ IF which("yt-dlp")
       THEN /\ calls' = [calls EXCEPT !.which_yt_dlp = @ + 1]
            /\ hist' = [hist EXCEPT !.yt_dlp_found = "found"]
            /\ pc' = "scope"
            /\ UNCHANGED <<result, tmpDir, files>>
       ELSE IF ~cli.fetch_yt_dlp
       THEN /\ calls' = [calls EXCEPT !.which_yt_dlp = @ + 1]
            /\ hist' = [hist EXCEPT !.yt_dlp_found = "absent"]
            /\ Return("yt_dlp_not_found", files)
       ELSE /\ calls' = [calls EXCEPT !.which_yt_dlp = @ + 1, !.fetch = @ + 1]
            /\ hist' = [hist EXCEPT !.yt_dlp_found = "absent"]
            /\ pc' = "fetching"
            /\ UNCHANGED <<result, tmpDir, files>>
    /\ UNCHANGED <<cli, pathSet, PATH, binDirs, outDir, video_path, running, ffArgs>>

\* format!("{}:{}", dir.display(), std::env::var("PATH").unwrap_or_default())
new_PATH(dir, isSet, old) == display(dir) \o <<":">> \o var_PATH_or_default(isSet, old)

\* fetcher.fetch() failed: "downloading yt-dlp"
fetch_failed ==
    /\ pc = "fetching"
    /\ hist' = [hist EXCEPT !.fetch = "failed"]
    /\ Return("fetch_failed", files)
    /\ UNCHANGED <<cli, pathSet, PATH, binDirs, outDir, video_path, running, calls, ffArgs>>

\* fetcher.fetch() wrote the binary and returned its path; PATH is set to
\* "<parent of the path>:<old PATH>"
fetch_ok ==
    /\ pc = "fetching"
    /\ \E f \in FetchPaths :
         /\ binDirs' = [binDirs EXCEPT !["yt-dlp"] = @ \cup {f.dir}]
         /\ PATH' = new_PATH(parent_or_dot(f.path), pathSet, PATH)
         /\ pathSet' = TRUE
         /\ hist' = [hist EXCEPT !.fetch = "ok", !.fetched_dir = {f.dir}]
    /\ calls' = [calls EXCEPT !.set_path = @ + 1]
    /\ pc' = "scope"
    /\ UNCHANGED <<cli, outDir, files, tmpDir, video_path, result, running, ffArgs>>

(* ---------------------------- video target ----------------------------- *)
\* main: --keep-video uses --video-path, otherwise tempdir()/video.mp4
resolve_video_path ==
    /\ pc = "scope"
    /\ IF cli.keep_video
       THEN /\ video_path' = [loc |-> "kept", text |-> cli.video_path]
            /\ pc' = "download"
            /\ UNCHANGED <<calls, tmpDir, result, files>>
       ELSE /\ calls' = [calls EXCEPT !.tempdir = @ + 1]
            /\ \/ /\ tmpDir' = "exists"
                  /\ \E tmp \in TempDirs :
                       video_path' = [loc |-> "tmp",
                                      text |-> Path_join(tmp, <<"video.mp4">>)]
                  /\ pc' = "download"
                  /\ UNCHANGED <<result, files>>
               \/ /\ Return("create_temp_dir", files)
                  /\ UNCHANGED video_path
    /\ UNCHANGED <<cli, pathSet, PATH, binDirs, outDir, running, hist, ffArgs>>

(* ---------------------------- directories ------------------------------ *)
\* fs::create_dir_all(d): Ok on a directory, creates a missing one (or
\* fails, e.g. no permission), Err when the path is a file
create_dir_all_noop(d) == IF d = "file" THEN {"file"} ELSE {d}
create_dir_all(d) ==
    IF d = "dir" THEN {"dir"}
    ELSE IF d = "missing" THEN {"dir", "Err"}
    ELSE {"Err"}

(* ---------------------------- download --------------------------------- *)
\* whether the parent of the video path is --out-dir
ParentIsOutDir == video_path.loc = "kept" /\ VideoInOutDir

\* download_video_as_mp4 up to its await at line 118: the parent directory
\* of the target is created, errors ignored (.ok())
download_create_parent_dir ==
    /\ pc = "download"
    /\ IF ParentIsOutDir
       THEN \E r \in create_dir_all(outDir) : outDir' = IF r = "Err" THEN outDir ELSE r
       ELSE UNCHANGED outDir
    /\ pc' = "start_yt_dlp"
    /\ UNCHANGED <<cli, pathSet, PATH, binDirs, files, tmpDir, video_path,
                   result, running, calls, hist, ffArgs>>

\* download_video_as_mp4 from there up to its await on ytdl.run_async():
\* yt-dlp is started
download_video_as_mp4_no_await ==
    /\ pc = "start_yt_dlp"
    /\ calls' = [calls EXCEPT !.yt_dlp = @ + 1]
    /\ running' = running \cup {"yt-dlp"}
    /\ pc' = "extract"
    /\ UNCHANGED <<cli, pathSet, PATH, binDirs, outDir, files, tmpDir, video_path,
                   result, hist, ffArgs>>

download_video_as_mp4 ==
    /\ pc = "start_yt_dlp"
    /\ calls' = [calls EXCEPT !.yt_dlp = @ + 1]
    /\ running' = running \cup {"yt-dlp"}
    /\ pc' = "downloading"
    /\ UNCHANGED <<cli, pathSet, PATH, binDirs, outDir, files, tmpDir, video_path,
                   result, hist, ffArgs>>

\* what yt-dlp may leave at the target: nothing (also by removing what was
\* there), an empty file, a video; nothing when the directory is not there
YtDlpLeaves(dirPresent) == IF dirPresent THEN {"absent", "empty", "data"} ELSE {"absent"}

\* run_async() failed to launch or yt-dlp exited non-zero: `?` returns the error
download_tool_failed ==
    /\ pc = "downloading"
    /\ running' = running \ {"yt-dlp"}
    /\ \E how \in {"launch_failed", "nonzero"} :
         \E after \in (IF how = "launch_failed" THEN {FileAt(video_path.loc)}
                        ELSE YtDlpLeaves(ParentIsOutDir => outDir = "dir")) :
              /\ hist' = [hist EXCEPT !.download = how, !.file_after = after]
              /\ Return("download_tool_failed", [files EXCEPT ![video_path.loc] = after])
    /\ UNCHANGED <<cli, pathSet, PATH, binDirs, outDir, video_path, calls, ffArgs>>

\* output_path.exists()
exists_always(f) == TRUE
exists(f) == f # "absent"

\* main's handling of download_video_as_mp4's error: `?` returns it
after_download_error_ignored(written) ==
    /\ pc' = "extract"
    /\ result' = "download_missing_output"
    /\ tmpDir' = tmpDir
    /\ files' = written
after_download_error(written) == Return("download_missing_output", written)

\* yt-dlp exited 0: the target must exist, otherwise bail!
download_exit_zero ==
    /\ pc = "downloading"
    /\ running' = running \ {"yt-dlp"}
    /\ \E after \in YtDlpLeaves(ParentIsOutDir => outDir = "dir") :
         LET written == [files EXCEPT ![video_path.loc] = after]
         IN IF ~exists(after)
            THEN /\ hist' = [hist EXCEPT !.download = "zero", !.file_after = after,
                                         !.exists_check = "failed"]
                 /\ after_download_error(written)
            ELSE /\ hist' = [hist EXCEPT !.download = "zero", !.file_after = after,
                                         !.exists_check = "passed"]
                 /\ files' = written
                 /\ pc' = "extract"
                 /\ UNCHANGED <<result, tmpDir>>
    /\ UNCHANGED <<cli, pathSet, PATH, binDirs, outDir, video_path, calls, ffArgs>>

(* ---------------------------- extraction ------------------------------- *)
\* extract_frames_with_ffmpeg, line 147
extract_create_out_dir ==
    /\ pc = "extract"
    /\ hist' = [hist EXCEPT !.out_dir_before = outDir]
    /\ \E r \in create_dir_all(outDir) :
         IF r = "Err"
         THEN /\ Return("creating_output_directory", files)
              /\ UNCHANGED outDir
         ELSE /\ outDir' = r
              /\ pc' = "build"
              /\ UNCHANGED <<result, tmpDir, files>>
    /\ UNCHANGED <<cli, pathSet, PATH, binDirs, video_path, running, calls, ffArgs>>

\* FfmpegBuilder calls, recorded in the order they are made
FfmpegBuilder_new == <<>>
option(b, o) == Append(b, [kind |-> "option", val |-> <<o>>, opts |-> <<>>])
input(b, url) == Append(b, [kind |-> "input", val |-> url, opts |-> <<>>])
output(b, url, params) == Append(b, [kind |-> "output", val |-> url, opts |-> params])
Parameter(k, v) == <<k, v>>

\* the -vf chain: fps first, then scale when given
vf_chain(fps, scale) ==
    join(<<<<"fps=">> \o Decimal(fps)>>
         \o (IF scale # None THEN <<<<"scale=", unwrap(scale)>>>> ELSE <<>>), <<",">>)

\* extract_frames_with_ffmpeg, lines 148-175
ffmpeg_invocation_t_before_input(in, out_dir, pattern, fps, scale, start, duration) ==
    LET b0 == option(option(FfmpegBuilder_new, "-hide_banner"), "-y")
        b1 == IF start # None THEN option(option(b0, "-ss"), unwrap(start)) ELSE b0
        b2 == IF duration # None THEN option(option(b1, "-t"), unwrap(duration)) ELSE b1
        b3 == input(b2, to_string_lossy(in))
    IN output(b3, to_string_lossy(Path_join(out_dir, pattern)),
              <<Parameter("-vf", vf_chain(fps, scale)),
                Parameter("-vsync", <<"vfr">>),
                Parameter("-frame_pts", <<"1">>)>>)
ffmpeg_invocation(in, out_dir, pattern, fps, scale, start, duration) ==
    LET b0 == option(option(FfmpegBuilder_new, "-hide_banner"), "-y")
        b1 == IF start # None THEN option(option(b0, "-ss"), unwrap(start)) ELSE b0
        b2 == input(b1, to_string_lossy(in))
        b3 == IF duration # None THEN option(option(b2, "-t"), unwrap(duration)) ELSE b2
    IN output(b3, to_string_lossy(Path_join(out_dir, pattern)),
              <<Parameter("-vf", vf_chain(fps, scale)),
                Parameter("-vsync", <<"vfr">>),
                Parameter("-frame_pts", <<"1">>)>>)

\* extract_frames_with_ffmpeg up to its await on b.run()
extract_frames_with_ffmpeg ==
    /\ pc = "build"
    /\ ffArgs' = ffmpeg_invocation(video_path.text, cli.out_dir, cli.pattern,
                                   cli.fps, cli.scale, cli.start, cli.duration)
    /\ calls' = [calls EXCEPT !.ffmpeg = @ + 1]
    /\ running' = running \cup {"ffmpeg"}
    /\ pc' = "extracting"
    /\ UNCHANGED <<cli, pathSet, PATH, binDirs, outDir, files, tmpDir, video_path,
                   result, hist>>

\* b.run() returned (taken to return when ffmpeg has exited): Err is
\* returned by `?`; on Ok line 82 prints and main returns Ok(()), or println!
\* panics because stdout cannot be written.  The panic unwinds main (the
\* default panic strategy), dropping its locals, and the process exits 101.
extract_done ==
    /\ pc = "extracting"
    /\ running' = running \ {"ffmpeg"}
    /\ \E r \in {Ok, "ffmpeg_failed", "println_panicked"} : Return(r, files)
    /\ UNCHANGED <<cli, pathSet, PATH, binDirs, outDir, video_path, calls, hist, ffArgs>>

(* ---------------------------- specification ---------------------------- *)
Next ==
    \/ ensure_ffmpeg_available
    \/ ensure_yt_dlp_available
    \/ fetch_failed
    \/ fetch_ok
    \/ resolve_video_path
    \/ download_create_parent_dir
    \/ download_video_as_mp4
    \/ download_tool_failed
    \/ download_exit_zero
    \/ extract_create_out_dir
    \/ extract_frames_with_ffmpeg
    \/ extract_done

Spec == Init /\ [][Next]_vars

(* ---------------------------- properties ------------------------------- *)
\* nothing after the tool checks has happened
NothingAfterToolChecks ==
    /\ calls.tempdir = 0
    /\ calls.yt_dlp = 0
    /\ calls.ffmpeg = 0
    /\ tmpDir = "none"
    /\ running = {}

\* C1: when ffmpeg is not on the search path the run fails in its first step:
\* no yt-dlp lookup, no fetch, no temp dir, no download, no transcode happens,
\* neither before the failure nor after it.
C1_FfmpegAbsentFailsFirst ==
    (pc = "ensure_ffmpeg" \/ hist.ffmpeg_found = "absent") =>
        /\ pc \in {"ensure_ffmpeg", "exited"}
        /\ pc = "exited" => result = "ffmpeg_not_found"
        /\ calls.which_yt_dlp = 0
        /\ calls.fetch = 0
        /\ calls.set_path = 0
        /\ NothingAfterToolChecks

C1_Witness ==
    /\ pc = "exited"
    /\ hist.ffmpeg_found = "absent"
    /\ ~which("ffmpeg")
    /\ result = "ffmpeg_not_found"
    /\ cli.fetch_yt_dlp
    /\ binDirs["yt-dlp"] # {}

\* what C2 says of --keep-video: no temp dir is ever created, and after a
\* successful run the file at --video-path exists
KeptVideoStays ==
    /\ cli.keep_video => (tmpDir = "none" /\ calls.tempdir = 0)
    /\ (cli.keep_video /\ pc = "exited" /\ result = Ok) => files.kept # "absent"

\* C2: without --keep-video a temp dir that was created no longer exists
\* when the run has ended, however it ended; with --keep-video no temp dir
\* is created and after a successful run the kept file exists.
C2_TempDirGone ==
    /\ (~cli.keep_video /\ pc = "exited") =>
          (tmpDir \in {"none", "deleted"} /\ files.tmp = "absent")
    /\ KeptVideoStays

\* C3: when yt-dlp exits 0 and the target file is absent afterwards, main has
\* returned the missing-output error and ffmpeg was never started.
C3_MissingOutputFails ==
    (hist.download = "zero" /\ hist.file_after = "absent") =>
        /\ pc = "exited"
        /\ result = "download_missing_output"
        /\ calls.ffmpeg = 0
        /\ ffArgs = <<>>

C3_Witness ==
    /\ hist.download = "zero"
    /\ hist.file_after = "absent"
    /\ result = "download_missing_output"

\* positions in the invocation of the items of a kind with a value
Positions(kind, val) ==
    {i \in 1..Len(ffArgs) : ffArgs[i].kind = kind /\ ffArgs[i].val = val}
InputPositions == {i \in 1..Len(ffArgs) : ffArgs[i].kind = "input"}
OutputPositions == {i \in 1..Len(ffArgs) : ffArgs[i].kind = "output"}

\* the filter chain the claim expects, written out
ExpectedChain ==
    <<"fps=">>
    \o (CASE cli.fps = 0 -> <<"0">>
          [] cli.fps = 10 -> <<"1", "0">>
          [] cli.fps = 25 -> <<"2", "5">>)
    \o (IF cli.scale # None THEN <<",", "scale=", unwrap(cli.scale)>> ELSE <<>>)

\* C4: the invocation built has the filter chain "fps=<fps>" followed by
\* ",scale=<spec>" exactly when a scale was given; -ss is there exactly when
\* start was given and comes before the input; -t is there exactly when
\* duration was given and comes after the input.
C4_InvocationShape ==
    calls.ffmpeg > 0 =>
        /\ Cardinality(InputPositions) = 1
        /\ Cardinality(OutputPositions) = 1
        /\ \A o \in OutputPositions : ffArgs[o].opts[1] = <<"-vf", ExpectedChain>>
        /\ (Positions("option", <<"-ss">>) # {}) <=> (cli.start # None)
        /\ \A i \in Positions("option", <<"-ss">>) :
             /\ \A j \in InputPositions : i + 1 < j
             /\ ffArgs[i + 1] = [kind |-> "option", val |-> <<unwrap(cli.start)>>, opts |-> <<>>]
        /\ (Positions("option", <<"-t">>) # {}) <=> (cli.duration # None)
        /\ \A i \in Positions("option", <<"-t">>) :
             /\ \A j \in InputPositions : j < i
             /\ \A o \in OutputPositions : i + 1 < o
             /\ ffArgs[i + 1] = [kind |-> "option", val |-> <<unwrap(cli.duration)>>, opts |-> <<>>]

C4_Witness ==
    /\ calls.ffmpeg > 0
    /\ cli.fps = 10
    /\ cli.scale = Some("1280:-1")
    /\ cli.start = Some("00:00:05")
    /\ cli.duration = Some("10")
    /\ Positions("option", <<"-ss">>) # {}
    /\ Positions("option", <<"-t">>) # {}

\* C5: ffmpeg is only ever started with the output directory in place (a
\* missing one has been created first), and when creating it failed main has
\* returned that error without starting ffmpeg.
C5_OutDirBeforeFfmpeg ==
    /\ (pc \in {"build", "extracting"} \/ calls.ffmpeg > 0) => outDir = "dir"
    /\ (hist.out_dir_before = "missing" /\ outDir = "dir") =>
          (pc \in {"build", "extracting"} \/ calls.ffmpeg = 1)
    /\ (hist.out_dir_before # "unknown" /\ outDir # "dir") =>
          /\ pc = "exited"
          /\ result = "creating_output_directory"
          /\ calls.ffmpeg = 0

C5_Witness ==
    /\ hist.out_dir_before = "missing"
    /\ outDir = "dir"
    /\ calls.ffmpeg = 1
    /\ result = Ok

\* C6: after a successful fetch the directory of the fetched binary is an
\* entry of PATH and looking up yt-dlp by name succeeds, for the rest of the run.
C6_FetchedToolIsFound ==
    hist.fetch = "ok" =>
        /\ pathSet
        /\ \A d \in hist.fetched_dir :
             \E i \in 1..Len(split_paths(PATH)) : split_paths(PATH)[i] = d
        /\ which("yt-dlp")

\* C7: yt-dlp absent without --fetch-yt-dlp fails with no fetch; a failed
\* fetch fails; in both cases no temp dir, download or transcode happens; a
\* fetch is only ever attempted when yt-dlp was absent and the flag was set.
C7_MissingYtDlpIsFatal ==
    /\ (hist.yt_dlp_found = "absent" /\ ~cli.fetch_yt_dlp) =>
          /\ pc = "exited"
          /\ result = "yt_dlp_not_found"
          /\ calls.fetch = 0
          /\ NothingAfterToolChecks
    /\ hist.fetch = "failed" =>
          /\ pc = "exited"
          /\ result = "fetch_failed"
          /\ NothingAfterToolChecks
    /\ calls.fetch > 0 => (hist.yt_dlp_found = "absent" /\ cli.fetch_yt_dlp)

C7_Witness ==
    /\ hist.fetch = "failed"
    /\ cli.fetch_yt_dlp
    /\ pc = "exited"

\* C8: at most one download and one transcode are started, never more than
\* one subprocess is outstanding, and ffmpeg starts only after yt-dlp has
\* exited 0 and the existence check has passed.
C8_StrictlySequential ==
    /\ calls.yt_dlp <= 1
    /\ calls.ffmpeg <= 1
    /\ Cardinality(running) <= 1
    /\ (calls.ffmpeg > 0 \/ "ffmpeg" \in running) =>
          /\ calls.yt_dlp = 1
          /\ "yt-dlp" \notin running
          /\ hist.download = "zero"
          /\ hist.exists_check = "passed"

C8_Witness ==
    /\ "ffmpeg" \in running
    /\ calls.yt_dlp = 1
    /\ calls.ffmpeg = 1

\* C9 as stated: when the download has returned success the video file
\* exists and is non-empty, and ffmpeg is never given anything else.
C9_ArtifactNonEmpty ==
    /\ pc \in {"extract", "build", "extracting"} => FileAt(video_path.loc) = "data"
    /\ calls.ffmpeg > 0 => hist.file_after = "data"

\* C9 amended: when the download has returned success the file at
\* video_path exists (it may be empty), and extract_frames_with_ffmpeg is
\* only ever called with that checked path.
C9_ArtifactExists ==
    /\ pc \in {"extract", "build", "extracting"} =>
          /\ FileAt(video_path.loc) # "absent"
          /\ hist.exists_check = "passed"
    /\ calls.ffmpeg > 0 =>
          /\ hist.file_after # "absent"
          /\ \A i \in InputPositions : ffArgs[i].val = to_string_lossy(video_path.text)

C9_Witness ==
    /\ pc = "extracting"
    /\ hist.file_after = "empty"
    /\ FileAt(video_path.loc) = "empty"

\* the entries of PATH as a lookup reads them (none when PATH is unset)
Entries(isSet, text) == IF isSet THEN split_paths(text) ELSE <<>>

PathWritten == PATH' # PATH \/ pathSet' # pathSet

\* PATH is written at most once, and only after a successful fetch
PathWrittenOnceByFetch ==
    /\ calls.set_path <= 1
    /\ calls.set_path > 0 =>
          (hist.fetch = "ok" /\ hist.yt_dlp_found = "absent" /\ cli.fetch_yt_dlp)

\* C10: PATH is written at most once, only after a successful fetch, and
\* that write adds to the path without rewriting it: every previous entry is
\* still there, in the original order (after the new entry or before it).
C10_PathEntriesKept ==
    /\ []PathWrittenOnceByFetch
    /\ [][PathWritten =>
            LET old == Entries(pathSet, PATH)
                new == Entries(pathSet', PATH')
            IN /\ Len(new) > Len(old)
               /\ \/ SubSeq(new, 1, Len(old)) = old
                  \/ SubSeq(new, Len(new) - Len(old) + 1, Len(new)) = old]_vars

====
